---- MODULE Spec2Model ----
(***************************************************************************)
(* Model of the glyph mirroring script: the pure geometry functions of     *)
(* mirror_geometry.py and the two mirror operations of Mirror.py           *)
(* (MirrorSelectionUI.mirrorHorizontal / mirrorVertical).                  *)
(*                                                                         *)
(* Numbers.  The script works on floats.  The model uses exact fixed-point *)
(* arithmetic: a coordinate c is the integer c * 100 * Q, where Q is the   *)
(* square of lcm(1..number of nodes).  Input coordinates are multiples of  *)
(* 0.01, so that the two successive means the script takes (the snap mean  *)
(* and the mean of validate_seam_alignment) are exact integers.            *)
(* A float keeps a bounded number of significant bits: the model keeps     *)
(* SignificandBits of them (the script's binary64 keeps 53), so that the   *)
(* subtraction of a reflection, 2 * aligned - v, is rounded to the nearest *)
(* representable value (ties to even) when its result needs more bits,     *)
(* as it is in the script, at a smaller magnitude.                         *)
(***************************************************************************)
EXTENDS Integers, Sequences, FiniteSets, TLC

\* ------------------------------------------------------------------ bounds
NumGrid == 4      \* how many of the coordinates of GridSeq the layers use
NumGeoGrid == 5   \* how many of the coordinates of GeoSeq the point lists use
MaxPoints == 3    \* longest point list given to the geometry functions
JitterLen == 4    \* length of the lists of jittered seam points
SignificandBits == 24   \* significant bits a float of the model keeps

\* the shapes of the layers: the numbers of nodes of the paths of a layer
Shapes == {<<3>>, <<2, 1>>}

RECURSIVE SeqSum(_)
SeqSum(s) == IF s = <<>> THEN 0 ELSE Head(s) + SeqSum(Tail(s))

\* the largest number of values the script takes a mean of
TotalNodes == CHOOSE m \in {SeqSum(sh) : sh \in Shapes} \cup {MaxPoints, JitterLen} :
                  /\ \A sh \in Shapes : SeqSum(sh) <= m
                  /\ MaxPoints <= m /\ JitterLen <= m

RECURSIVE Gcd(_, _)
Gcd(a, b) == IF b = 0 THEN a ELSE Gcd(b, a % b)

RECURSIVE LcmUpTo(_)
LcmUpTo(n) == IF n <= 1 THEN 1 ELSE (LcmUpTo(n - 1) * n) \div Gcd(LcmUpTo(n - 1), n)

K == LcmUpTo(TotalNodes)
Q == K * K
\* one hundredth of a font unit
Hundredth == Q

\* input coordinates, in hundredths of a unit
GridSeq == <<0, -500, 30, -700, 1, 500, -30>>
Grid == {GridSeq[i] * Hundredth : i \in 1..NumGrid}
GeoSeq == <<0, 1, -1, -500, 30, -700, 500>>
GeoGrid == {GeoSeq[i] * Hundredth : i \in 1..NumGeoGrid}

\* ------------------------------------------------------- program constants
center_band == 500 * Hundredth     \* center_band = 5.0
eps == 1 * Hundredth               \* eps = 0.01
SIDE_EPSILON == 50 * Hundredth     \* the spec's SIDE_EPSILON = 0.5
SNAP_BAND == 500 * Hundredth       \* the spec's SNAP_BAND = 5.0

\* ------------------------------------------------------------------ helpers
Abs(v) == IF v < 0 THEN -v ELSE v

RECURSIVE Flatten(_)
Flatten(ss) == IF ss = <<>> THEN <<>> ELSE Head(ss) \o Flatten(Tail(ss))

Range(s) == {s[i] : i \in DOMAIN s}

SetMax(S) == CHOOSE m \in S : \A v \in S : v <= m
SetMin(S) == CHOOSE m \in S : \A v \in S : m <= v

\* exact mean of a non-empty sequence of numbers (sum(c) / len(c))
Mean(c) == SeqSum(c) \div Len(c)
MeanIsExact(c) == SeqSum(c) % Len(c) = 0

\* ------------------------------------------------------------ floats
RECURSIVE Pow2(_)
Pow2(n) == IF n = 0 THEN 1 ELSE 2 * Pow2(n - 1)

\* the spacing of the representable values around the magnitude a
RECURSIVE Ulp(_)
Ulp(a) == IF a < Pow2(SignificandBits) THEN 1 ELSE 2 * Ulp(a \div 2)

\* the representable value nearest to v, ties to the even significand
RoundToFloat(v) ==
    LET a == Abs(v)
        u == Ulp(a)
        q == a \div u
        r == a % u
        m == IF 2 * r > u \/ (2 * r = u /\ q % 2 = 1) THEN (q + 1) * u ELSE q * u
    IN  IF v < 0 THEN -m ELSE m

\* 2 * aligned - v as the script computes it: the product is exact, the
\* subtraction is rounded
Reflect(aligned, v) == RoundToFloat(2 * aligned - v)

\* ------------------------------------------------- mirror_geometry.py
\* Point = namedtuple("Point", ["x", "y", "on_curve"])
Point(x, y, on_curve) == [x |-> x, y |-> y, on_curve |-> on_curve]

almost_equal(a, b, e) == Abs(a - b) <= e

\* coord = p.x if check_x else p.y
CoordOf(p, check_x) == IF check_x THEN p.x ELSE p.y

\* faulty variant of find_seam_points: the boundary of the band is excluded
find_seam_points_OpenBand(points, axis_value, band, check_x) ==
    SelectSeq(points, LAMBDA p :
        p.on_curve /\ Abs(CoordOf(p, check_x) - axis_value) < band)

find_seam_points(points, axis_value, band, check_x) ==
    SelectSeq(points, LAMBDA p :
        p.on_curve /\ Abs(CoordOf(p, check_x) - axis_value) <= band)

\* the result of a call that may raise: err is "none" or the exception class
Raise(e) == [err |-> e, value |-> 0, pts |-> <<>>]
Return(v) == [err |-> "none", value |-> v, pts |-> <<>>]
ReturnPts(v, ps) == [err |-> "none", value |-> v, pts |-> ps]

validate_seam_alignment(seam_points, check_x, e) ==
    IF seam_points = <<>> THEN Raise("NoSeamPointsError")
    ELSE LET coords == [i \in DOMAIN seam_points |-> CoordOf(seam_points[i], check_x)]
             ref_coord == coords[1]
         IN  IF \E i \in 2..Len(coords) : ~almost_equal(coords[i], ref_coord, e)
             THEN Raise("SeamAlignmentError")
             ELSE Return(Mean(coords))

\* def mirror_horizontal(points, axis_x, source_side="left", eps=0.01,
\* center_band=5.0) and def mirror_vertical(points, axis_y, ...): the names a
\* call may bind
MirrorParameters == {"points", "axis", "source_side", "eps", "center_band"}

\* the binding of the arguments of a call: a keyword argument the signature
\* does not have raises TypeError before the body runs
CallWithKeywords(keywords, parameters, body) ==
    IF keywords \subseteq parameters THEN body ELSE Raise("TypeError")

\* faulty variant of mirror_horizontal: reflects by aligned_x - x
mirror_horizontal_HalfShift(points, axis_x, source_side, e, band) ==
    LET seam_points == find_seam_points(points, axis_x, band, TRUE)
    IN  IF seam_points = <<>> THEN Raise("NoSeamPointsError")
        ELSE LET v == validate_seam_alignment(seam_points, TRUE, e)
                 aligned_x == v.value
                 source == IF source_side = "left"
                           THEN SelectSeq(points, LAMBDA p : p.x <= aligned_x + e)
                           ELSE SelectSeq(points, LAMBDA p : p.x >= aligned_x - e)
                 mirrored == [i \in DOMAIN source |->
                                Point(aligned_x - source[i].x, source[i].y,
                                      source[i].on_curve)]
             IN  IF v.err # "none" THEN Raise(v.err)
                 ELSE ReturnPts(aligned_x, source \o mirrored)

\* faulty variant of mirror_horizontal: without seam points it mirrors across
\* the supplied axis and raises nothing
mirror_horizontal_AxisFallback(points, axis_x, source_side, e, band) ==
    LET seam_points == find_seam_points(points, axis_x, band, TRUE)
        v == IF seam_points = <<>> THEN Return(axis_x)
             ELSE validate_seam_alignment(seam_points, TRUE, e)
        aligned_x == v.value
        source == IF source_side = "left"
                  THEN SelectSeq(points, LAMBDA p : p.x <= aligned_x + e)
                  ELSE SelectSeq(points, LAMBDA p : p.x >= aligned_x - e)
        mirrored == [i \in DOMAIN source |->
                       Point(Reflect(aligned_x, source[i].x), source[i].y,
                             source[i].on_curve)]
    IN  IF v.err # "none" THEN Raise(v.err)
        ELSE ReturnPts(aligned_x, source \o mirrored)

mirror_horizontal(points, axis_x, source_side, e, band) ==
    LET seam_points == find_seam_points(points, axis_x, band, TRUE)
    IN  IF seam_points = <<>> THEN Raise("NoSeamPointsError")
        ELSE LET v == validate_seam_alignment(seam_points, TRUE, e)
                 aligned_x == v.value
                 source == IF source_side = "left"
                           THEN SelectSeq(points, LAMBDA p : p.x <= aligned_x + e)
                           ELSE SelectSeq(points, LAMBDA p : p.x >= aligned_x - e)
                 mirrored == [i \in DOMAIN source |->
                                Point(Reflect(aligned_x, source[i].x), source[i].y,
                                      source[i].on_curve)]
             IN  IF v.err # "none" THEN Raise(v.err)
                 ELSE ReturnPts(aligned_x, source \o mirrored)

\* faulty variant of mirror_vertical: the source filter has no tolerance and
\* drops the points on the aligned axis
mirror_vertical_StrictSide(points, axis_y, source_side, e, band) ==
    LET seam_points == find_seam_points(points, axis_y, band, FALSE)
    IN  IF seam_points = <<>> THEN Raise("NoSeamPointsError")
        ELSE LET v == validate_seam_alignment(seam_points, FALSE, e)
                 aligned_y == v.value
                 source == IF source_side = "top"
                           THEN SelectSeq(points, LAMBDA p : p.y > aligned_y)
                           ELSE SelectSeq(points, LAMBDA p : p.y < aligned_y)
                 mirrored == [i \in DOMAIN source |->
                                Point(source[i].x, Reflect(aligned_y, source[i].y),
                                      source[i].on_curve)]
             IN  IF v.err # "none" THEN Raise(v.err)
                 ELSE ReturnPts(aligned_y, source \o mirrored)

\* faulty variant of mirror_vertical: the mirrored points lose the off-curve
\* flag
mirror_vertical_FlagLost(points, axis_y, source_side, e, band) ==
    LET seam_points == find_seam_points(points, axis_y, band, FALSE)
    IN  IF seam_points = <<>> THEN Raise("NoSeamPointsError")
        ELSE LET v == validate_seam_alignment(seam_points, FALSE, e)
                 aligned_y == v.value
                 source == IF source_side = "top"
                           THEN SelectSeq(points, LAMBDA p : p.y >= aligned_y - e)
                           ELSE SelectSeq(points, LAMBDA p : p.y <= aligned_y + e)
                 mirrored == [i \in DOMAIN source |->
                                Point(source[i].x, Reflect(aligned_y, source[i].y), TRUE)]
             IN  IF v.err # "none" THEN Raise(v.err)
                 ELSE ReturnPts(aligned_y, source \o mirrored)

mirror_vertical(points, axis_y, source_side, e, band) ==
    LET seam_points == find_seam_points(points, axis_y, band, FALSE)
    IN  IF seam_points = <<>> THEN Raise("NoSeamPointsError")
        ELSE LET v == validate_seam_alignment(seam_points, FALSE, e)
                 aligned_y == v.value
                 source == IF source_side = "top"
                           THEN SelectSeq(points, LAMBDA p : p.y >= aligned_y - e)
                           ELSE SelectSeq(points, LAMBDA p : p.y <= aligned_y + e)
                 mirrored == [i \in DOMAIN source |->
                                Point(source[i].x, Reflect(aligned_y, source[i].y),
                                      source[i].on_curve)]
             IN  IF v.err # "none" THEN Raise(v.err)
                 ELSE ReturnPts(aligned_y, source \o mirrored)

\* ------------------------------------------------------------ Mirror.py
\* A GSNode: id is the identity of the node object, on is
\* (node.type != GSOFFCURVE), sel is node.selected.  A path is the sequence
\* path.nodes, a layer the sequence layer.paths.
GSNode(id, x, y, on, sel) == [id |-> id, x |-> x, y |-> y, on |-> on, sel |-> sel]

NodesOf(L) == Flatten(L)
NodeById(L, id) == CHOOSE n \in Range(NodesOf(L)) : n.id = id
\* the node objects of a list of node ids, as the layer holds them now
Live(L, ids) ==
    LET nodes == Range(NodesOf(L))
    IN  [i \in DOMAIN ids |-> CHOOSE n \in nodes : n.id = ids[i]]
Ids(nodes) == [i \in DOMAIN nodes |-> nodes[i].id]

\* [n for p in self.layer.paths for n in p.nodes if n.selected], as node ids
selectedNodes(L) == Ids(SelectSeq(NodesOf(L), LAMBDA n : n.sel))

\* the list comprehension of _collect_*_seam_nodes over a list of node ids
SeamNodesOf(L, selNodes, axisV, band, check_x) ==
    Ids(SelectSeq(Live(L, selNodes), LAMBDA n :
        n.on /\ Abs(CoordOf(n, check_x) - axisV) <= band))

\* the auto-selection loop: node.selected = True on every on-curve node of the
\* layer within the band
AutoSelect(L, axisV, band, check_x) ==
    [p \in DOMAIN L |-> [i \in DOMAIN L[p] |->
        IF L[p][i].on /\ Abs(CoordOf(L[p][i], check_x) - axisV) <= band
        THEN [L[p][i] EXCEPT !.sel = TRUE]
        ELSE L[p][i]]]

AutoNodes(L, axisV, band, check_x) ==
    Ids(SelectSeq(NodesOf(L), LAMBDA n :
        n.on /\ Abs(CoordOf(n, check_x) - axisV) <= band))

\* returns (seam_nodes, updated_selection) and the layer as the call leaves it
CollectSeamNodes(L, selNodes, axisV, band, check_x) ==
    LET seam_nodes == SeamNodesOf(L, selNodes, axisV, band, check_x)
        auto_nodes == AutoNodes(L, axisV, band, check_x)
        L2 == AutoSelect(L, axisV, band, check_x)
        new_selection == selectedNodes(L2)
    IN  IF seam_nodes # <<>>
        THEN [seam |-> seam_nodes, sel |-> selNodes, layer |-> L]
        ELSE IF auto_nodes # <<>>
        THEN [seam |-> SeamNodesOf(L2, new_selection, axisV, band, check_x),
              sel |-> new_selection, layer |-> L2]
        ELSE [seam |-> <<>>, sel |-> selNodes, layer |-> L]

collect_horizontal_seam_nodes(L, selNodes, axisX, band) ==
    CollectSeamNodes(L, selNodes, axisX, band, TRUE)

collect_vertical_seam_nodes(L, selNodes, axisY, band) ==
    CollectSeamNodes(L, selNodes, axisY, band, FALSE)

\* faulty variant of SeamAxisX: the extremes are swapped
SeamAxisX_Swapped(L, selNodes, sourceSide) ==
    LET xs == {n.x : n \in Range(Live(L, selNodes))}
    IN  IF sourceSide = "left" THEN SetMin(xs) ELSE SetMax(xs)

\* "Decide seam x based on source side"
SeamAxisX(L, selNodes, sourceSide) ==
    LET xs == {n.x : n \in Range(Live(L, selNodes))}
    IN  IF sourceSide = "left" THEN SetMax(xs) ELSE SetMin(xs)

\* "Decide seam y based on source side"
SeamAxisY(L, selNodes, sourceSide) ==
    LET ys == {n.y : n \in Range(Live(L, selNodes))}
    IN  IF sourceSide = "top" THEN SetMin(ys) ELSE SetMax(ys)

\* faulty variant of SnapX: off-curve nodes of the band are snapped too
SnapX_AnyType(L, axisX, avg_x, band) ==
    [p \in DOMAIN L |-> [i \in DOMAIN L[p] |->
        IF Abs(L[p][i].x - axisX) <= band
        THEN [L[p][i] EXCEPT !.x = avg_x]
        ELSE L[p][i]]]

\* faulty variant of SnapX: the nodes of the band are moved past the mean, out
\* of the band of the new seam value
SnapX_Overshoot(L, axisX, avg_x, band) ==
    [p \in DOMAIN L |-> [i \in DOMAIN L[p] |->
        IF L[p][i].on /\ Abs(L[p][i].x - axisX) <= band
        THEN [L[p][i] EXCEPT !.x = avg_x + 2 * band]
        ELSE L[p][i]]]

\* the snap loop: node.position.x = avg_x on every on-curve node in the band
SnapX(L, axisX, avg_x, band) ==
    [p \in DOMAIN L |-> [i \in DOMAIN L[p] |->
        IF L[p][i].on /\ Abs(L[p][i].x - axisX) <= band
        THEN [L[p][i] EXCEPT !.x = avg_x]
        ELSE L[p][i]]]

SnapY(L, axisY, avg_y, band) ==
    [p \in DOMAIN L |-> [i \in DOMAIN L[p] |->
        IF L[p][i].on /\ Abs(L[p][i].y - axisY) <= band
        THEN [L[p][i] EXCEPT !.y = avg_y]
        ELSE L[p][i]]]

\* points.append(Point(node.position.x, node.position.y, on_curve))
PointsOf(L, selNodes) ==
    LET nodes == Live(L, selNodes)
    IN  [i \in DOMAIN nodes |-> Point(nodes[i].x, nodes[i].y, nodes[i].on)]

\* any(n.selected for n in path.nodes)
HasSelection(path) == \E i \in DOMAIN path : path[i].sel

\* indices of the paths of paths_with_selection
paths_with_selection(L) == SelectSeq([p \in DOMAIN L |-> p], LAMBDA p : HasSelection(L[p]))

\* faulty variant of ToDeleteX: selected nodes are deleted too
ToDeleteX_Selected(node, sourceSide, axisX, e) ==
    IF sourceSide = "left" THEN node.x > axisX + e ELSE node.x < axisX - e

\* faulty variant of ToDeleteX: no tolerance, the seam itself is deleted
ToDeleteX_NoTolerance(node, sourceSide, axisX, e) ==
    /\ ~node.sel
    /\ IF sourceSide = "left" THEN node.x >= axisX ELSE node.x <= axisX

\* to_delete of one path: the test of the trim loop on node i
ToDeleteX(node, sourceSide, axisX, e) ==
    /\ ~node.sel
    /\ IF sourceSide = "left" THEN node.x > axisX + e ELSE node.x < axisX - e

ToDeleteY(node, sourceSide, axisY, e) ==
    /\ ~node.sel
    /\ IF sourceSide = "top" THEN node.y < axisY - e ELSE node.y > axisY + e

\* del path.nodes[i]
DelAt(s, i) == SubSeq(s, 1, i - 1) \o SubSeq(s, i + 1, Len(s))

\* faulty variant of DeleteReversed: deletes from the lowest index to the
\* highest, so that the later indices are stale
RECURSIVE DeleteReversed_LowestFirst(_, _)
DeleteReversed_LowestFirst(nodes, to_delete) ==
    IF to_delete = <<>> THEN nodes
    ELSE DeleteReversed_LowestFirst(
             IF Head(to_delete) <= Len(nodes) THEN DelAt(nodes, Head(to_delete)) ELSE nodes,
             Tail(to_delete))

\* for i in reversed(to_delete): del path.nodes[i]
RECURSIVE DeleteReversed(_, _)
DeleteReversed(nodes, to_delete) ==
    IF to_delete = <<>> THEN nodes
    ELSE DeleteReversed(DelAt(nodes, to_delete[Len(to_delete)]),
                        SubSeq(to_delete, 1, Len(to_delete) - 1))

\* faulty variant of TrimX: paths without selection are trimmed too
TrimX_EveryPath(L, sourceSide, axisX, e) ==
    [p \in DOMAIN L |->
        DeleteReversed(L[p],
            SelectSeq([i \in DOMAIN L[p] |-> i],
                      LAMBDA i : ToDeleteX(L[p][i], sourceSide, axisX, e)))]

TrimX(L, sourceSide, axisX, e) ==
    [p \in DOMAIN L |->
        IF ~HasSelection(L[p]) THEN L[p]
        ELSE DeleteReversed(L[p],
                SelectSeq([i \in DOMAIN L[p] |-> i],
                          LAMBDA i : ToDeleteX(L[p][i], sourceSide, axisX, e)))]

TrimY(L, sourceSide, axisY, e) ==
    [p \in DOMAIN L |->
        IF ~HasSelection(L[p]) THEN L[p]
        ELSE DeleteReversed(L[p],
                SelectSeq([i \in DOMAIN L[p] |-> i],
                          LAMBDA i : ToDeleteY(L[p][i], sourceSide, axisY, e)))]

\* GSPath.applyTransform((a, b, c, d, tx, ty)) on one node
applyTransform(n, m) ==
    [n EXCEPT !.x = m[1] * n.x + m[3] * n.y + m[5],
              !.y = m[2] * n.x + m[4] * n.y + m[6]]

\* p.copy(): new node objects; the copy of node id of a layer of n nodes
\* gets the fresh identity id + n
CopyPath(path, fresh) == [i \in DOMAIN path |-> [path[i] EXCEPT !.id = path[i].id + fresh]]

\* new_path = p.copy(); applyTransform; n.selected = False
MirroredPathX(path, axisX, fresh) ==
    LET new_path == CopyPath(path, fresh)
    IN  [i \in DOMAIN new_path |->
            [applyTransform(new_path[i], <<-1, 0, 0, 1, 2 * axisX, 0>>)
                EXCEPT !.sel = FALSE]]

MirroredPathY(path, axisY, fresh) ==
    LET new_path == CopyPath(path, fresh)
    IN  [i \in DOMAIN new_path |->
            [applyTransform(new_path[i], <<1, 0, 0, -1, 0, 2 * axisY>>)
                EXCEPT !.sel = FALSE]]

\* The trace of one invocation of mirrorHorizontal / mirrorVertical:
\*   outcome    "ok", or the title of the Message the invocation shows
\*   axis0      the seam value decided from the selection
\*   seam0      seam_nodes of the first _collect_*_seam_nodes call
\*   selLayer   the layer after that call (auto-selection)
\*   axisSnap   the seam value after the snap block
\*   snapLayer  the layer after the snap block
\*   axis       the aligned seam value used to trim and mirror
\*   trimLayer  the layer after the trim loop
\*   pws        paths_with_selection (path indices)
\*   layer      the layer when the invocation returns (for "ok": after the
\*              mirrored paths are appended, before the host's
\*              removeOverlap / correctPathDirection)
\*   reached    how far the invocation got: 0 nothing selected, 1 no seam
\*              node, 2 failed after the snap block, 3 trimmed and mirrored
Trace(outcome, reached, axis0, seam0, selLayer, axisSnap, snapLayer, axis, pws, trimLayer, L) ==
    [outcome |-> outcome, reached |-> reached, axis0 |-> axis0, seam0 |-> seam0,
     selLayer |-> selLayer, axisSnap |-> axisSnap, snapLayer |-> snapLayer,
     axis |-> axis, pws |-> pws, trimLayer |-> trimLayer, layer |-> L]

\* sum(n.position.x for n in seam_nodes) / len(seam_nodes)
MeanX(L, seam_nodes) ==
    LET nodes == Live(L, seam_nodes) IN Mean([i \in DOMAIN nodes |-> nodes[i].x])
MeanY(L, seam_nodes) ==
    LET nodes == Live(L, seam_nodes) IN Mean([i \in DOMAIN nodes |-> nodes[i].y])

mirrorHorizontal(L, sourceSide, autoSnap) ==
    LET selNodes0 == selectedNodes(L)
    IN  IF selNodes0 = <<>>
        THEN Trace("No nodes selected", 0, 0, <<>>, L, 0, L, 0, <<>>, L, L)
        ELSE
    LET axis0 == SeamAxisX(L, selNodes0, sourceSide)
        c1 == collect_horizontal_seam_nodes(L, selNodes0, axis0, center_band)
    IN  IF c1.seam = <<>>
        THEN Trace("No seam points found", 1, axis0, <<>>, c1.layer, axis0,
                   c1.layer, axis0, <<>>, c1.layer, c1.layer)
        ELSE
    LET avg_x == MeanX(c1.layer, c1.seam)
        axis1 == IF autoSnap THEN avg_x ELSE axis0
        c2 == IF autoSnap
              THEN collect_horizontal_seam_nodes(
                       SnapX(c1.layer, axis0, avg_x, center_band),
                       c1.sel, axis1, center_band)
              ELSE c1
        points == PointsOf(c2.layer, c2.sel)
        seam_points == find_seam_points(points, axis1, center_band, TRUE)
        v == validate_seam_alignment(seam_points, TRUE, eps)
        pws == paths_with_selection(c2.layer)
        Fail(title) == Trace(title, 2, axis0, c1.seam, c1.layer, axis1, c2.layer,
                             axis1, <<>>, c2.layer, c2.layer)
    IN  IF c2.seam = <<>> THEN Fail("No seam points found")
        ELSE IF seam_points = <<>> THEN Fail("No seam points found")
        ELSE IF v.err # "none" THEN Fail("Seam validation failed")
        ELSE IF pws = <<>> THEN Fail("No nodes selected")
        ELSE
    LET axisX == v.value
        Lt == TrimX(c2.layer, sourceSide, axisX, eps)
        new_paths == [k \in DOMAIN pws |->
                        MirroredPathX(Lt[pws[k]], axisX, Len(NodesOf(L)))]
    IN  Trace("ok", 3, axis0, c1.seam, c1.layer, axis1, c2.layer, axisX, pws,
              Lt, Lt \o new_paths)

mirrorVertical(L, sourceSide, autoSnap) ==
    LET selNodes0 == selectedNodes(L)
    IN  IF selNodes0 = <<>>
        THEN Trace("No nodes selected", 0, 0, <<>>, L, 0, L, 0, <<>>, L, L)
        ELSE
    LET axis0 == SeamAxisY(L, selNodes0, sourceSide)
        c1 == collect_vertical_seam_nodes(L, selNodes0, axis0, center_band)
    IN  IF c1.seam = <<>>
        THEN Trace("No seam points found", 1, axis0, <<>>, c1.layer, axis0,
                   c1.layer, axis0, <<>>, c1.layer, c1.layer)
        ELSE
    LET avg_y == MeanY(c1.layer, c1.seam)
        axis1 == IF autoSnap THEN avg_y ELSE axis0
        c2 == IF autoSnap
              THEN collect_vertical_seam_nodes(
                       SnapY(c1.layer, axis0, avg_y, center_band),
                       c1.sel, axis1, center_band)
              ELSE c1
        points == PointsOf(c2.layer, c2.sel)
        seam_points == find_seam_points(points, axis1, center_band, FALSE)
        v == validate_seam_alignment(seam_points, FALSE, eps)
        pws == paths_with_selection(c2.layer)
        Fail(title) == Trace(title, 2, axis0, c1.seam, c1.layer, axis1, c2.layer,
                             axis1, <<>>, c2.layer, c2.layer)
    IN  IF c2.seam = <<>> THEN Fail("No seam points found")
        ELSE IF seam_points = <<>> THEN Fail("No seam points found")
        ELSE IF v.err # "none" THEN Fail("Seam validation failed")
        ELSE IF pws = <<>> THEN Fail("No nodes selected")
        ELSE
    LET axisY == v.value
        Lt == TrimY(c2.layer, sourceSide, axisY, eps)
        new_paths == [k \in DOMAIN pws |->
                        MirroredPathY(Lt[pws[k]], axisY, Len(NodesOf(L)))]
    IN  Trace("ok", 3, axis0, c1.seam, c1.layer, axis1, c2.layer, axisY, pws,
              Lt, Lt \o new_paths)

\* ------------------------------------------------------------ state machine
VARIABLES
    layer,    \* the live layer (layer.paths) of the host document
    before,   \* the layer as it was when the operation was invoked
    op,       \* the operation invoked and its arguments ("idle" before)
    run,      \* the trace of the invocation of a mirror operation
    geo       \* arguments and result of a call of the geometry module

vars == <<layer, before, op, run, geo>>

\* the nodes of the glyph lie on the diagonal y = -x, so that both axes see
\* the grid; every node is on-curve or off-curve, selected or not
NodeChoices == {[g |-> g, on |-> on, sel |-> sel] : g \in Grid, on \in BOOLEAN, sel \in BOOLEAN}

\* the paths of n nodes whose node objects are first, first + 1, ...
PathSet(first, n) ==
    {[i \in 1..n |-> GSNode(first + i - 1, c[i].g, -c[i].g, c[i].on, c[i].sel)] :
        c \in [1..n -> NodeChoices]}

\* the layers of a shape; the node objects are first, first + 1, ... in path
\* order
RECURSIVE LayersFrom(_, _)
LayersFrom(sh, first) ==
    IF sh = <<>> THEN {<<>>}
    ELSE {<<p>> \o rest : p \in PathSet(first, Head(sh)),
                          rest \in LayersFrom(Tail(sh), first + Head(sh))}

LayersOfShape(sh) == LayersFrom(sh, 1)

\* the point lists the geometry functions are called with
PointSet == {Point(g, -g, on) : g \in GeoGrid, on \in BOOLEAN}
PointLists(n) == [1..n -> PointSet]

\* the triangle of test_simple_triangle_left_source: (-10,0), (0,10), (0,0),
\* all on-curve
Triangle ==
    <<Point(-1000 * Hundredth, 0, TRUE), Point(0, 1000 * Hundredth, TRUE),
      Point(0, 0, TRUE)>>

\* the rhombus (-10,0), (0,10), (10,0), (0,0): the triangle and its mirror
\* image, a shape symmetric about x = 0
Rhombus ==
    <<Point(-1000 * Hundredth, 0, TRUE), Point(0, 1000 * Hundredth, TRUE),
      Point(1000 * Hundredth, 0, TRUE), Point(0, 0, TRUE)>>

\* the rest of the whole path of test_bounds_fallback_no_seam_horizontal, far
\* from the selected points
RestOfPath == <<Point(19000 * Hundredth, 0, TRUE), Point(18000 * Hundredth, 4000 * Hundredth, TRUE)>>

\* lists of on-curve seam points that sit on the seam or 0.01 beside it
JitterSet == {Point(g * Hundredth, -g * Hundredth, TRUE) : g \in {-1, 0, 1}}
JitterLists == [1..JitterLen -> JitterSet]

\* a coordinate far from the seam whose reflection needs one more bit than a
\* float keeps
FarCoord == Pow2(SignificandBits + 1) - 2

\* lists of a seam point on the seam or 0.01 beside it and an off-curve point
\* far away on either side
FarLists ==
    {<<Point(g * Hundredth, -g * Hundredth, TRUE), Point(f, -f, FALSE)>> :
        g \in {0, 1}, f \in {FarCoord, -FarCoord}}

\* the seam values the geometry functions are called with
GeoAxes == {GeoSeq[1] * Hundredth, GeoSeq[4] * Hundredth}

NoRun == Trace("idle", 0, 0, <<>>, <<>>, 0, <<>>, 0, <<>>, <<>>, <<>>)
NoGeo ==
    [points |-> <<>>, axis |-> 0, check_x |-> TRUE, all_path_points |-> <<>>,
     result |-> Raise("idle")]
\* op.fn before the operation: "idle" is the open window waiting for the
\* Mirror button, "call" a caller of the geometry module holding geo.points
Idle == [fn |-> "idle", sourceSide |-> "none", autoSnap |-> FALSE]
Caller == [fn |-> "call", sourceSide |-> "none", autoSnap |-> FALSE]

InitLayer ==
    /\ \E sh \in Shapes : layer \in LayersOfShape(sh)
    /\ before = layer
    /\ op = Idle
    /\ run = NoRun
    /\ geo = NoGeo

InitPoints ==
    /\ layer = <<>>
    /\ before = <<>>
    /\ op = Caller
    /\ run = NoRun
    /\ \/ \E n \in 0..MaxPoints : \E ps \in PointLists(n) :
             geo = [NoGeo EXCEPT !.points = ps]
       \/ \E ps \in {Triangle, Rhombus} \cup JitterLists \cup FarLists :
             geo = [NoGeo EXCEPT !.points = ps]

Init == InitLayer \/ InitPoints

\* runCallback, index in (1, 3)
MirrorHorizontal ==
    \E sourceSide \in {"left", "right"}, autoSnap \in BOOLEAN :
        /\ op.fn = "idle"
        /\ op' = [fn |-> "mirrorHorizontal", sourceSide |-> sourceSide, autoSnap |-> autoSnap]
        /\ run' = mirrorHorizontal(layer, sourceSide, autoSnap)
        /\ layer' = run'.layer
        /\ UNCHANGED <<before, geo>>

\* runCallback, index in (0, 2)
MirrorVertical ==
    \E sourceSide \in {"top", "bottom"}, autoSnap \in BOOLEAN :
        /\ op.fn = "idle"
        /\ op' = [fn |-> "mirrorVertical", sourceSide |-> sourceSide, autoSnap |-> autoSnap]
        /\ run' = mirrorVertical(layer, sourceSide, autoSnap)
        /\ layer' = run'.layer
        /\ UNCHANGED <<before, geo>>

\* mirror_horizontal(points, axis_x, source_side)
GeoMirrorHorizontal ==
    \E source_side \in {"left", "right"}, axis_x \in GeoAxes :
        /\ op.fn = "call"
        /\ op' = [fn |-> "mirror_horizontal", sourceSide |-> source_side, autoSnap |-> FALSE]
        /\ geo' = [geo EXCEPT !.axis = axis_x, !.check_x = TRUE,
                              !.result = mirror_horizontal(geo.points, axis_x, source_side,
                                                           eps, center_band)]
        /\ UNCHANGED <<layer, before, run>>

\* mirror_vertical(points, axis_y, source_side)
GeoMirrorVertical ==
    \E source_side \in {"top", "bottom"}, axis_y \in GeoAxes :
        /\ op.fn = "call"
        /\ op' = [fn |-> "mirror_vertical", sourceSide |-> source_side, autoSnap |-> FALSE]
        /\ geo' = [geo EXCEPT !.axis = -axis_y, !.check_x = FALSE,
                              !.result = mirror_vertical(geo.points, -axis_y, source_side,
                                                         eps, center_band)]
        /\ UNCHANGED <<layer, before, run>>

\* find_seam_points(points, axis_value, check_x=check_x)
GeoFindSeamPoints ==
    \E check_x \in BOOLEAN, axis_value \in GeoAxes :
        LET a == IF check_x THEN axis_value ELSE -axis_value
        IN  /\ op.fn = "call"
            /\ op' = [fn |-> "find_seam_points", sourceSide |-> "none", autoSnap |-> FALSE]
            /\ geo' = [geo EXCEPT !.axis = a, !.check_x = check_x,
                                  !.result = ReturnPts(0,
                                      find_seam_points(geo.points, a, center_band, check_x))]
            /\ UNCHANGED <<layer, before, run>>

\* validate_seam_alignment(seam_points, check_x=check_x)
GeoValidateSeamAlignment ==
    \E check_x \in BOOLEAN :
        /\ op.fn = "call"
        /\ op' = [fn |-> "validate_seam_alignment", sourceSide |-> "none", autoSnap |-> FALSE]
        /\ geo' = [geo EXCEPT !.check_x = check_x,
                              !.result = validate_seam_alignment(geo.points, check_x, eps)]
        /\ UNCHANGED <<layer, before, run>>

\* mirror_horizontal / mirror_vertical(points, axis, source_side,
\* all_path_points=whole_path), as the bounds fallback tests call them
GeoMirrorAllPathPoints ==
    \E check_x \in BOOLEAN, low \in BOOLEAN, axis_value \in GeoAxes :
        LET a == IF check_x THEN axis_value ELSE -axis_value
            source_side == IF check_x THEN (IF low THEN "left" ELSE "right")
                           ELSE (IF low THEN "bottom" ELSE "top")
            body == IF check_x
                    THEN mirror_horizontal(geo.points, a, source_side, eps, center_band)
                    ELSE mirror_vertical(geo.points, a, source_side, eps, center_band)
        IN  /\ op.fn = "call"
            /\ op' = [fn |-> IF check_x THEN "mirror_horizontal_all_path_points"
                                        ELSE "mirror_vertical_all_path_points",
                      sourceSide |-> source_side, autoSnap |-> FALSE]
            /\ geo' = [geo EXCEPT
                          !.axis = a, !.check_x = check_x,
                          !.all_path_points = geo.points \o RestOfPath,
                          !.result = CallWithKeywords(
                              {"points", "axis", "source_side", "all_path_points"},
                              MirrorParameters, body)]
            /\ UNCHANGED <<layer, before, run>>

Next ==
    \/ MirrorHorizontal
    \/ MirrorVertical
    \/ GeoMirrorHorizontal
    \/ GeoMirrorVertical
    \/ GeoFindSeamPoints
    \/ GeoValidateSeamAlignment
    \/ GeoMirrorAllPathPoints

Spec == Init /\ [][Next]_vars

\* ---------------------------------------------------- vocabulary of claims
UIRan == op.fn \in {"mirrorHorizontal", "mirrorVertical"}
GeoRan == op.fn \in {"mirror_horizontal", "mirror_vertical"}
Failed == UIRan /\ run.outcome # "ok"
Succeeded == UIRan /\ run.outcome = "ok"

\* the along-axis and the cross-axis coordinate of a node for the operation
Along(n) == IF op.fn \in {"mirrorHorizontal", "mirror_horizontal"} THEN n.x ELSE n.y
Cross(n) == IF op.fn \in {"mirrorHorizontal", "mirror_horizontal"} THEN n.y ELSE n.x

\* the source side is the side of the smaller coordinates (left, bottom)
LowSource == op.sourceSide \in {"left", "bottom"}

\* v lies beyond the seam on the side opposite to the source, by more than tol
BeyondOpposite(v, seam, tol) == IF LowSource THEN v > seam + tol ELSE v < seam - tol
\* v lies on the source side of the seam, by more than tol
BeyondSource(v, seam, tol) == IF LowSource THEN v < seam - tol ELSE v > seam + tol

MarkedNodes(path) == {n \in Range(path) : n.sel}
AllNodes(L) == Range(NodesOf(L))
HasId(L, id) == \E n \in AllNodes(L) : n.id = id

\* the means the script takes are exact in the fixed-point representation
ExactMeans ==
    /\ UIRan /\ run.reached >= 2 =>
          MeanIsExact([i \in DOMAIN run.seam0 |-> Along(NodeById(run.selLayer, run.seam0[i]))])
    /\ UIRan /\ run.reached = 3 =>
          LET sp == SelectSeq(NodesOf(run.snapLayer), LAMBDA n :
                        n.sel /\ n.on /\ Abs(Along(n) - run.axisSnap) <= center_band)
          IN  MeanIsExact([i \in DOMAIN sp |-> Along(sp[i])])
    /\ GeoRan /\ geo.result.err = "none" =>
          LET sp == SelectSeq(geo.points, LAMBDA q :
                        q.on_curve /\ Abs(Along(q) - geo.axis) <= center_band)
          IN  MeanIsExact([i \in DOMAIN sp |-> Along(sp[i])])
    /\ op.fn = "validate_seam_alignment" /\ geo.result.err = "none" =>
          MeanIsExact([i \in DOMAIN geo.points |-> CoordOf(geo.points[i], geo.check_x)])

\* -------------------------------------------------------------------- C1
\* C1: an invocation of a mirror operation that ends in an error outcome
\* leaves every outline of the layer exactly as it was before the invocation
\* (same points, same coordinates, same selected flags).
C1_NoOpOnFailure == Failed => layer = before

\* -------------------------------------------------------------------- C2
\* the extreme along-axis coordinate of a set of nodes on the side of the
\* seam: the maximum for a left or bottom source, the minimum otherwise
IsExtremeOf(v, nodes) ==
    /\ \E n \in nodes : Along(n) = v
    /\ \A n \in nodes : IF LowSource THEN Along(n) <= v ELSE Along(n) >= v

SeamOnlySelection ==
    /\ UIRan /\ run.reached >= 1
    /\ \A n \in AllNodes(before) : n.sel => Abs(Along(n) - run.axis0) <= SIDE_EPSILON

\* C3: a selection whose marked points all lie within SIDE_EPSILON of the
\* computed seam is reported as an error and leaves every outline unchanged.
C3_SeamOnlyNoOp == SeamOnlySelection => (run.outcome # "ok" /\ layer = before)

\* -------------------------------------------------------------------- C4
\* the on-curve points of a path within SNAP_BAND of a seam value
SeamAnchors(path, seam) ==
    {n \in Range(path) : n.on /\ Abs(Along(n) - seam) <= SNAP_BAND}

\* C4: if an outline that has marked points has fewer than two on-curve points
\* within SNAP_BAND of the computed seam, the invocation fails and no outline
\* is mutated.
C4_InsufficientAnchorsAbort ==
    (/\ UIRan /\ run.reached >= 1
     /\ \E p \in DOMAIN before :
            /\ HasSelection(before[p])
            /\ Cardinality(SeamAnchors(before[p], run.axis0)) < 2)
    => (run.outcome # "ok" /\ layer = before)

\* -------------------------------------------------------------------- C5
\* the steps of an invocation in which the live outline p was changed
StepChanged(step, p) ==
    IF step = "select" THEN run.selLayer[p] # before[p]
    ELSE IF step = "snap" THEN run.snapLayer[p] # run.selLayer[p]
    ELSE run.trimLayer[p] # run.snapLayer[p]

ChangedIn(p) == {step \in {"select", "snap", "trim"} : StepChanged(step, p)}

\* C5: a live outline changes in one single step of an invocation, the commit
\* of a successful invocation; it is never left partially mutated.
C5_AtomicCommit ==
    UIRan =>
        \A p \in DOMAIN before :
            /\ Cardinality(ChangedIn(p)) <= 1
            /\ ChangedIn(p) # {} => run.outcome = "ok"

C7_TrimGuarantee ==
    Succeeded =>
        /\ \A k \in DOMAIN run.pws :
              \A n \in Range(run.trimLayer[run.pws[k]]) :
                  ~(~n.sel /\ BeyondOpposite(Along(n), run.axis, eps))
        /\ \A n \in AllNodes(run.snapLayer) : n.sel => n \in AllNodes(run.trimLayer)
        /\ \A n \in AllNodes(before) : n.sel => HasId(run.trimLayer, n.id)

\* a marked point clearly on the opposite side of the seam survives the trim
\* that deleted an unmarked point of its outline
C7_Witness ==
    /\ Succeeded
    /\ \E k \in DOMAIN run.pws :
          /\ Len(run.trimLayer[run.pws[k]]) < Len(run.snapLayer[run.pws[k]])
          /\ \E n \in Range(run.trimLayer[run.pws[k]]) :
                n.sel /\ BeyondOpposite(Along(n), run.axis, SIDE_EPSILON)

\* -------------------------------------------------------------------- C8
\* the points of the layer within tol of the seam survive the trim step
SurvivesWithin(tol) ==
    \A n \in AllNodes(run.snapLayer) :
        Abs(Along(n) - run.axis) <= tol => n \in AllNodes(run.trimLayer)

IsReflection(m, src, seam) ==
    /\ Along(m) = Reflect(seam, Along(src))
    /\ Cross(m) = Cross(src)

\* C9: every mirrored point that mirror_horizontal / mirror_vertical returns,
\* and every point of a mirrored path copy, comes from exactly one source point
\* by v' = 2*seam - v on the along-axis coordinate (seam is the aligned seam
\* value), with the cross-axis coordinate and the on-curve flag unchanged.
C9_Reflection ==
    /\ (GeoRan /\ geo.result.err = "none") =>
          LET pts == geo.result.pts
              n == Len(pts) \div 2
          IN  /\ Len(pts) = 2 * n
              /\ \A i \in 1..n :
                    /\ IsReflection(pts[n + i], pts[i], geo.result.value)
                    /\ pts[n + i].on_curve = pts[i].on_curve
    /\ Succeeded =>
          /\ Len(layer) = Len(before) + Len(run.pws)
          /\ \A k \in DOMAIN run.pws :
                LET src == run.trimLayer[run.pws[k]]
                    m == layer[Len(before) + k]
                IN  /\ Len(m) = Len(src)
                    /\ \A i \in DOMAIN src :
                          /\ IsReflection(m[i], src[i], run.axis)
                          /\ m[i].on = src[i].on

\* an off-curve handle away from the seam was mirrored by the geometry module
C9_Witness ==
    /\ GeoRan /\ geo.result.err = "none"
    /\ \E i \in 1..(Len(geo.result.pts) \div 2) :
          /\ ~geo.result.pts[i].on_curve
          /\ Along(geo.result.pts[i]) # geo.result.value
          /\ ~geo.result.pts[i + Len(geo.result.pts) \div 2].on_curve

\* ------------------------------------------------------------------- C10
\* the node of the layer after the snap block that is node n of the layer
\* before it
Snapped(n) == NodeById(run.snapLayer, n.id)

InBand(n) == n.on /\ Abs(Along(n) - run.axis0) <= SNAP_BAND

C10_SnapRan == UIRan /\ op.autoSnap /\ run.reached >= 2

\* C10 as stated: the snap step moves exactly the marked on-curve points within
\* SNAP_BAND of the seam value to their mean, which becomes the seam value; no
\* other point is moved; if there is no such point the seam value is unchanged.
C10_SnapOnlyMarked ==
    C10_SnapRan =>
        LET S == {n \in AllNodes(before) : n.sel /\ InBand(n)}
        IN  /\ \A n \in AllNodes(before) :
                  IF n \in S
                  THEN /\ Along(Snapped(n)) = run.axisSnap
                       /\ Cross(Snapped(n)) = Cross(n)
                  ELSE /\ Along(Snapped(n)) = Along(n)
                       /\ Cross(Snapped(n)) = Cross(n)
            /\ S = {} => run.axisSnap = run.axis0

\* C10 amended: when autoSnap is on, the snap block takes the marked on-curve
\* points within center_band of the seam value (if no marked on-curve point is
\* in the band, every on-curve point of the layer in the band is marked first),
\* makes the mean of their along-axis coordinates the new seam value, and
\* overwrites with it the along-axis coordinate of every on-curve point of the
\* layer within center_band of the old seam value, marked or not; no off-curve
\* point and no point outside the band is moved, and no other field changes.
C10_SnapAllInBand ==
    C10_SnapRan =>
        LET marked == Live(run.selLayer, run.seam0)
        IN  /\ Range(marked) = {n \in AllNodes(run.selLayer) : n.sel /\ InBand(n)}
            /\ marked # <<>>
            /\ SeqSum([i \in DOMAIN marked |-> Along(marked[i])])
                  = run.axisSnap * Len(marked)
            /\ \A n \in AllNodes(run.selLayer) :
                  IF InBand(n)
                  THEN /\ Along(Snapped(n)) = run.axisSnap
                       /\ Cross(Snapped(n)) = Cross(n)
                       /\ Snapped(n).on = n.on /\ Snapped(n).sel = n.sel
                  ELSE Snapped(n) = n

\* the snap block moved an unmarked on-curve point of the band and left an
\* off-curve point of the band where it was
C10_Witness ==
    /\ C10_SnapRan
    /\ \E n \in AllNodes(run.selLayer) :
          ~n.sel /\ InBand(n) /\ Along(n) # run.axisSnap
    /\ \E n \in AllNodes(run.selLayer) :
          /\ ~n.on /\ Abs(Along(n) - run.axis0) <= SNAP_BAND
          /\ Along(n) # run.axisSnap

\* ------------------------------------------------------------------- C11
\* the outlines an invocation processed, as it leaves them: the outlines with
\* marked points after the trim and their mirrored copies
ProcessedOutlines ==
    {layer[run.pws[k]] : k \in DOMAIN run.pws}
        \cup {layer[Len(before) + k] : k \in DOMAIN run.pws}

\* C11: after a successful invocation with snapping enabled, every on-curve
\* point of a processed outline within SNAP_BAND of the resolved seam value has
\* its along-axis coordinate exactly equal to the resolved seam value.
C11_SeamInvariance ==
    (Succeeded /\ op.autoSnap) =>
        \A path \in ProcessedOutlines :
            \A n \in Range(path) :
                (n.on /\ Abs(Along(n) - run.axis) <= SNAP_BAND) => Along(n) = run.axis

\* ------------------------------------------------------------------- C12
\* q is the input point s, or the exact reflection of s across the seam
SameOrMirror(q, s, seam, qOn, sOn) ==
    /\ qOn = sOn
    /\ Cross(q) = Cross(s)
    /\ Along(q) = Along(s) \/ Along(q) = Reflect(seam, Along(s))

\* side preservation of the point list mirror_horizontal / mirror_vertical
\* returns
GeoSidePreserved ==
    (GeoRan /\ geo.result.err = "none") =>
        \A i \in DOMAIN geo.result.pts :
            LET q == geo.result.pts[i]
                seam == geo.result.value
            IN  Abs(Along(q) - seam) > SIDE_EPSILON =>
                    \E j \in DOMAIN geo.points :
                        /\ BeyondSource(Along(geo.points[j]), seam, 0)
                        /\ SameOrMirror(q, geo.points[j], seam,
                                        q.on_curve, geo.points[j].on_curve)

\* side preservation of the outlines a mirror operation processed
UISidePreserved ==
    Succeeded =>
        \A path \in ProcessedOutlines :
            \A q \in Range(path) :
                Abs(Along(q) - run.axis) > SIDE_EPSILON =>
                    \E s \in AllNodes(before) :
                        /\ BeyondSource(Along(s), run.axis, 0)
                        /\ SameOrMirror(q, s, run.axis, q.on, s.on)

\* C12: every point of the final result that is not within SIDE_EPSILON of the
\* seam is an input point on the source side of the seam or the exact
\* reflection across the seam of such a point; no point of the input's
\* opposite side appears in the result.
C12_SidePreservation == GeoSidePreserved /\ UISidePreserved

\* ------------------------------------------------------------------- C13
\* how often the point q occurs in the list s
Occurrences(s, q) == Cardinality({i \in DOMAIN s : s[i] = q})

\* the lists a and b are the same cycle: b is a rotation of a
SameCycle(a, b) ==
    /\ Len(a) = Len(b)
    /\ \E k \in 0..(Len(a) - 1) :
          \A i \in 1..Len(a) : a[i] = b[((i - 1 + k) % Len(a)) + 1]

\* the seam points of the input all lie exactly on the seam value
SeamPointsOnSeam ==
    \A j \in DOMAIN geo.points :
        (geo.points[j].on_curve /\ Abs(Along(geo.points[j]) - geo.axis) <= center_band)
            => Along(geo.points[j]) = geo.result.value

\* C13: mirroring a half whose seam points lie exactly on the seam yields a
\* result in which each seam point appears once (as often as in the input);
\* for the triangle (-10,0), (0,10), (0,0) with left source and seam 0 the
\* result is the 4-point cycle (-10,0), (0,10), (10,0), (0,0).
C13_SeamDedup ==
    (GeoRan /\ geo.result.err = "none" /\ SeamPointsOnSeam) =>
        /\ \A j \in DOMAIN geo.points :
              Along(geo.points[j]) = geo.result.value =>
                  Occurrences(geo.result.pts, geo.points[j])
                      = Occurrences(geo.points, geo.points[j])
        /\ (/\ geo.points = Triangle
            /\ op.fn = "mirror_horizontal" /\ op.sourceSide = "left"
            /\ geo.axis = 0)
           => SameCycle(geo.result.pts, Rhombus)

\* ------------------------------------------------------------------- C14
\* the reflection of the point q across the seam
Reflected(q, seam) ==
    IF op.fn = "mirror_horizontal"
    THEN Point(Reflect(seam, q.x), q.y, q.on_curve)
    ELSE Point(q.x, Reflect(seam, q.y), q.on_curve)

\* the point list s is symmetric about the seam: the reflection of each of
\* its points occurs in it as often as the point
SymmetricAbout(s, seam) ==
    \A i \in DOMAIN s : Occurrences(s, Reflected(s[i], seam)) = Occurrences(s, s[i])

\* the bounding box of a non-empty point list
BoundingBox(s) ==
    <<SetMin({s[i].x : i \in DOMAIN s}), SetMin({s[i].y : i \in DOMAIN s}),
      SetMax({s[i].x : i \in DOMAIN s}), SetMax({s[i].y : i \in DOMAIN s})>>

\* a shape already symmetric about the aligned seam was mirrored
MirroredSymmetricShape ==
    /\ GeoRan /\ geo.result.err = "none"
    /\ SymmetricAbout(geo.points, geo.result.value)

RoundTripSameBox ==
    MirroredSymmetricShape => BoundingBox(geo.result.pts) = BoundingBox(geo.points)

RoundTripSameCount ==
    MirroredSymmetricShape => Len(geo.result.pts) = Len(geo.points)

\* C14: mirroring a shape that is already symmetric about the seam yields a
\* result with the same number of points as the original shape and the same
\* bounding box.
C14_RoundTrip == RoundTripSameCount /\ RoundTripSameBox

\* ------------------------------------------------------------------- C15
\* the input points at or on the source side of the aligned axis (within eps),
\* in input order
SourceSidePoints ==
    SelectSeq(geo.points, LAMBDA p : ~BeyondOpposite(Along(p), geo.result.value, eps))

\* C15: whenever mirror_horizontal / mirror_vertical returns, the result is the
\* source-side input points (at or on the source side of the aligned axis,
\* within eps) in input order, followed by the reflection of each of them in
\* the same order; its length is twice the number of source-side input points,
\* so each seam point occurs twice.
C15_ResultShape ==
    (GeoRan /\ geo.result.err = "none") =>
        LET source == SourceSidePoints
            n == Len(source)
            pts == geo.result.pts
        IN  /\ Len(pts) = 2 * n
            /\ SubSeq(pts, 1, n) = source
            /\ \A i \in 1..n : pts[n + i] = Reflected(source[i], geo.result.value)
            /\ \A i \in 1..n :
                  Along(source[i]) = geo.result.value =>
                      Occurrences(pts, source[i]) = 2 * Occurrences(source, source[i])

\* a call that dropped an input point of the opposite side and returned a seam
\* point twice
C15_Witness ==
    /\ GeoRan /\ geo.result.err = "none"
    /\ 0 < Len(SourceSidePoints) /\ Len(SourceSidePoints) < Len(geo.points)
    /\ \E i \in DOMAIN geo.points :
          /\ geo.points[i].on_curve
          /\ Along(geo.points[i]) = geo.result.value
          /\ Occurrences(geo.points, geo.points[i]) = 1
          /\ Occurrences(geo.result.pts, geo.points[i]) = 2

\* ------------------------------------------------------------------- C16
\* the input holds no on-curve point within center_band of the supplied axis
NoSeamInInput ==
    \A j \in DOMAIN geo.points :
        ~(geo.points[j].on_curve /\ Abs(Along(geo.points[j]) - geo.axis) <= center_band)

C16_EmptySeamListValidated ==
    /\ op.fn = "validate_seam_alignment" /\ geo.points = <<>>
    /\ geo.result.err = "NoSeamPointsError"

\* ------------------------------------------------------------------- C17
\* the seam points validate_seam_alignment looked at: its argument, or the
\* seam points mirror_horizontal / mirror_vertical found in their input
ValidatedSeamPoints ==
    IF op.fn = "validate_seam_alignment" THEN geo.points
    ELSE find_seam_points(geo.points, geo.axis, center_band, geo.check_x)

\* all points of s are mutually within eps along the axis
MutuallyAligned(s) ==
    \A i, j \in DOMAIN s :
        Abs(CoordOf(s[i], geo.check_x) - CoordOf(s[j], geo.check_x)) <= eps

ValidationRan ==
    /\ op.fn \in {"validate_seam_alignment", "mirror_horizontal", "mirror_vertical"}
    /\ ValidatedSeamPoints # <<>>

\* C17: validate_seam_alignment (and therefore mirror_horizontal and
\* mirror_vertical) raises SeamAlignmentError whenever any two seam points
\* differ by more than eps along the axis; it returns normally only when all
\* seam points are mutually within eps.
C17_AlignmentValidation ==
    ValidationRan =>
        IF MutuallyAligned(ValidatedSeamPoints)
        THEN geo.result.err = "none"
        ELSE geo.result.err = "SeamAlignmentError"

\* ------------------------------------------------------------------- C18
BoundsCallRan ==
    op.fn \in {"mirror_horizontal_all_path_points", "mirror_vertical_all_path_points"}

\* the midpoint of the extent of the whole path along the axis
BoundsMidpoint ==
    LET cs == {CoordOf(geo.all_path_points[i], geo.check_x) : i \in DOMAIN geo.all_path_points}
    IN  (SetMin(cs) + SetMax(cs)) \div 2

\* what the call returns or raises without the whole path
SeamBasedResult ==
    IF geo.check_x
    THEN mirror_horizontal(geo.points, geo.axis, op.sourceSide, eps, center_band)
    ELSE mirror_vertical(geo.points, geo.axis, op.sourceSide, eps, center_band)

\* C18: when the selected points contain no on-curve point within center_band
\* of the supplied axis and the whole path's points are supplied
\* (all_path_points), mirror_horizontal / mirror_vertical do not fail: they
\* mirror across the midpoint of the whole path's extent along the axis and
\* return 2 x len(selected) points; when seam points exist near the supplied
\* axis, the seam-based axis is used and the bounds are ignored.
C18_BoundsFallback ==
    BoundsCallRan =>
        IF find_seam_points(geo.points, geo.axis, center_band, geo.check_x) = <<>>
        THEN /\ geo.result.err = "none"
             /\ geo.result.value = BoundsMidpoint
             /\ Len(geo.result.pts) = 2 * Len(geo.points)
        ELSE geo.result = SeamBasedResult

\* ------------------------------------------------------------------- C19
\* the positions of the on-curve input points within center_band of the axis
\* value, boundary included
AnchorIndices ==
    {i \in DOMAIN geo.points :
        /\ geo.points[i].on_curve
        /\ Abs(CoordOf(geo.points[i], geo.check_x) - geo.axis) <= center_band}

\* the k-th smallest of a set of positions
KthOf(S, k) == CHOOSE i \in S : Cardinality({j \in S : j < i}) = k - 1

FindSeamPointsRan == op.fn = "find_seam_points"

ReturnsExactlyAnchors ==
    FindSeamPointsRan =>
        /\ Len(geo.result.pts) = Cardinality(AnchorIndices)
        /\ \A k \in 1..Len(geo.result.pts) :
              geo.result.pts[k] = geo.points[KthOf(AnchorIndices, k)]
        /\ \A k \in 1..Len(geo.result.pts) : geo.result.pts[k].on_curve

\* C19: find_seam_points returns exactly the input points that are on-curve
\* and whose along-axis coordinate (x if check_x else y) is within center_band
\* of axis_value, boundary inclusive, in input order; an off-curve point is
\* never returned, however close to the axis, and the input list is not
\* modified.
C19_SeamAnchorDetection ==
    /\ []ReturnsExactlyAnchors
    /\ [][FindSeamPointsRan' => geo'.points = geo.points]_vars

\* a call that returned a point on the boundary of the band and left out an
\* off-curve point on the axis and an on-curve point outside the band
C19_Witness ==
    /\ FindSeamPointsRan
    /\ \E k \in DOMAIN geo.result.pts :
          Abs(CoordOf(geo.result.pts[k], geo.check_x) - geo.axis) = center_band
    /\ \E i \in DOMAIN geo.points :
          ~geo.points[i].on_curve /\ CoordOf(geo.points[i], geo.check_x) = geo.axis
    /\ \E i \in DOMAIN geo.points :
          geo.points[i].on_curve /\ i \notin AnchorIndices

\* ------------------------------------------------------------------- C20
\* the positions of the points of a path flagged for deletion: unmarked and
\* beyond the seam on the opposite side
FlaggedIndices(path) ==
    {i \in DOMAIN path : ~path[i].sel /\ BeyondOpposite(Along(path[i]), run.axis, eps)}

\* C20: for every processed outline, the point sequence after the trim step is
\* the sequence before it with exactly the flagged points (unmarked, beyond the
\* seam on the opposite side) removed and all remaining points in their
\* original relative order; deleting from the highest index to the lowest
\* never removes a point that was not flagged.
C20_IndexStableDeletion ==
    Succeeded =>
        \A k \in DOMAIN run.pws :
            LET old == run.snapLayer[run.pws[k]]
                new == run.trimLayer[run.pws[k]]
                kept == DOMAIN old \ FlaggedIndices(old)
            IN  /\ Len(new) = Cardinality(kept)
                /\ \A j \in 1..Len(new) : new[j] = old[KthOf(kept, j)]

\* a trim that deleted two points of an outline in front of a point it kept
C20_Witness ==
    /\ Succeeded
    /\ \E k \in DOMAIN run.pws :
          LET old == run.snapLayer[run.pws[k]]
          IN  /\ Cardinality(FlaggedIndices(old)) >= 2
              /\ \E i \in DOMAIN old :
                    /\ i \notin FlaggedIndices(old)
                    /\ \A f \in FlaggedIndices(old) : f < i

\* ------------------------------------------------------------------- C21
\* the marked on-curve points within center_band of the seam value, after the
\* snap block: the seam nodes the second collection and find_seam_points see
SeamNodesAfterSnap ==
    {n \in AllNodes(run.snapLayer) :
        n.sel /\ n.on /\ Abs(Along(n) - run.axisSnap) <= center_band}

\* C21: in mirrorHorizontal / mirrorVertical, once the first seam-node check
\* has passed, the later "No seam points found" outcomes are unreachable:
\* after the snap block (autoSnap on) the re-collected seam nodes are not
\* empty, and find_seam_points on the selected points never returns an empty
\* list, for both autoSnap settings.
C21_LaterNoSeamUnreachable ==
    (UIRan /\ run.reached >= 2) =>
        /\ run.outcome # "No seam points found"
        /\ SeamNodesAfterSnap # {}

\* the first check passed and the snap block moved the seam value
C21_Witness ==
    /\ UIRan /\ run.reached >= 2
    /\ op.autoSnap
    /\ run.axisSnap # run.axis0
    /\ run.snapLayer # run.selLayer

\* ------------------------------------------------------------------- C22
\* the seam points mirror_horizontal / mirror_vertical detected in their input
DetectedSeamPoints == find_seam_points(geo.points, geo.axis, center_band, geo.check_x)

\* the source part of the result: its first half
SourcePart == SubSeq(geo.result.pts, 1, Len(geo.result.pts) \div 2)

\* C22: whenever mirror_horizontal / mirror_vertical returns normally, every
\* seam point it detected (on-curve input point within center_band of the
\* supplied axis, having passed the alignment validation) is kept in the
\* source part of the result, for either source side; the source-side filter
\* against the averaged axis drops no validated seam point.
C22_SeamPointsKept ==
    (GeoRan /\ geo.result.err = "none") =>
        \A i \in DOMAIN DetectedSeamPoints :
            Occurrences(SourcePart, DetectedSeamPoints[i])
                = Occurrences(geo.points, DetectedSeamPoints[i])

\* ------------------------------------------------------------------- C23
\* the mirrored part of the result: its second half
MirroredPart ==
    SubSeq(geo.result.pts, Len(geo.result.pts) \div 2 + 1, Len(geo.result.pts))

\* reflecting the point twice gives the point back, exactly
ReflectsBack(q) == Reflected(Reflected(q, geo.result.value), geo.result.value) = q

\* C23 as stated: the result of mirror_horizontal / mirror_vertical is
\* symmetric about the aligned axis as a multiset: for every point p of the
\* result, the point with along-axis coordinate 2*aligned - p, the same
\* cross-axis coordinate and the same on_curve flag occurs in the result as
\* often as p.
C23_MultisetSymmetry ==
    (GeoRan /\ geo.result.err = "none") =>
        SymmetricAbout(geo.result.pts, geo.result.value)

\* C23 amended: for every point p of the source part of the result, the point
\* with along-axis coordinate 2*aligned - p as the script computes it, the same
\* cross-axis coordinate and the same on_curve flag occurs in the mirrored part
\* at least as often as p in the source part; the whole result is symmetric
\* about the aligned axis as a multiset whenever reflecting twice gives every
\* source point back exactly (2*aligned - (2*aligned - v) = v without rounding).
C23_SymmetryUpToRounding ==
    (GeoRan /\ geo.result.err = "none") =>
        /\ \A i \in DOMAIN SourcePart :
              Occurrences(MirroredPart, Reflected(SourcePart[i], geo.result.value))
                  >= Occurrences(SourcePart, SourcePart[i])
        /\ (\A i \in DOMAIN SourcePart : ReflectsBack(SourcePart[i]))
              => SymmetricAbout(geo.result.pts, geo.result.value)

\* a symmetric result with an off-curve point away from the seam and a seam
\* point beside the aligned axis
C23_Witness ==
    /\ GeoRan /\ geo.result.err = "none"
    /\ \A i \in DOMAIN SourcePart : ReflectsBack(SourcePart[i])
    /\ \E i \in DOMAIN SourcePart :
          ~SourcePart[i].on_curve /\ Abs(Along(SourcePart[i]) - geo.result.value) > center_band
    /\ \E i \in DOMAIN SourcePart :
          SourcePart[i].on_curve /\ Along(SourcePart[i]) # geo.result.value
    /\ SymmetricAbout(geo.result.pts, geo.result.value)

\* a result in which the reflection of a mirrored point is not the source
\* point it came from
C23_RoundedReflection ==
    /\ GeoRan /\ geo.result.err = "none"
    /\ \E i \in DOMAIN SourcePart : ~ReflectsBack(SourcePart[i])

====
